---- MODULE Spec2Model ----
(***************************************************************************)
(* Model of pymatrix.py: the Conditional Access applicability matrix.      *)
(*                                                                         *)
(* Four specifications share the module, one per part of the program:      *)
(*   SpecEval    calculate_included on one (policy, user, group_list)      *)
(*   SpecPage    the pagination loop of get_all_with_next_link and         *)
(*               get_group_members, called from main                       *)
(*   SpecFilter  the user filtering of main (groups, type, sample, number) *)
(*   Spec        the evaluation of the filtered users (process_user, the   *)
(*               sequential and the parallel branch) and the export        *)
(* Each specification leaves the variables of the other parts at Idle.     *)
(***************************************************************************)
EXTENDS Integers, Sequences, FiniteSets, TLC

VARIABLES
    \* calculate_included
    ev_policy, ev_user, ev_group_list, ev_result,
    \* the pagination loop and its caller
    pg_fn, pg_source, pg_pc, pg_endpoint, pg_results, pg_requests,
    pg_raised, pg_returned, pg_error,
    \* the user filtering of main
    f_args, f_directory, f_candidates, f_pc, f_users, f_group_members,
    f_presample, f_sample_size, f_error,
    \* the evaluation and export of main
    ca_policies, users, memberOf, parallel, pc, next_user, groups, tasks,
    collected, requests, result_obj, progress, handed, csv_file, json_file,
    error

evVars == <<ev_policy, ev_user, ev_group_list, ev_result>>
pgVars == <<pg_fn, pg_source, pg_pc, pg_endpoint, pg_results, pg_requests,
            pg_raised, pg_returned, pg_error>>
fVars == <<f_args, f_directory, f_candidates, f_pc, f_users, f_group_members,
           f_presample, f_sample_size, f_error>>
runVars == <<ca_policies, users, memberOf, parallel, pc, next_user,
             groups, tasks, collected, requests, result_obj, progress,
             handed, csv_file, json_file, error>>
vars == <<evVars, pgVars, fVars, runVars>>

\* The value of a variable of a part that the specification does not run.
Idle == "idle"
\* Python's None (an option not given, a variable not assigned yet) and a
\* value that is there: an optional value is a sequence of length 0 or 1.
None == <<>>
Some(v) == <<v>>

(***************************************************************************)
(* calculate_included                                                      *)
(***************************************************************************)

\* Bounds of SpecEval: user ids 1..MaxEvUsers, group ids 1..MaxEvGroups.
MaxEvUsers == 2
MaxEvGroups == 2

\* The sentinel 'All' of includeUsers, kept apart from the user ids (>= 1).
All == 0

EvUserIds == 1..MaxEvUsers
EvGroupIds == 1..MaxEvGroups

\* The four condition fields read by calculate_included.
CondFields == {"excludeUsers", "excludeGroups", "includeUsers", "includeGroups"}

\* The values a condition field may list.
FieldValues(field, userIds, groupIds) ==
    CASE field = "excludeUsers" -> userIds
      [] field = "includeUsers" -> userIds \cup {All}
      [] OTHER -> groupIds

\* policy['conditions']['users'] objects: any field may be missing.
UserConditions(userIds, groupIds) ==
    UNION { {c \in [present -> SUBSET (userIds \cup groupIds \cup {All})] :
                \A fld \in present : c[fld] \subseteq FieldValues(fld, userIds, groupIds)} :
            present \in SUBSET CondFields }

\* dict.get(key, []) on policy['conditions']['users'].
Get(conds, key) == IF key \in DOMAIN conds THEN conds[key] ELSE {}

\* any(group in group_ids for group in group_list)
AnyIn(group_list, group_ids) == \E group \in group_list : group \in group_ids

\* A plausible slip: the 'All' shortcut tested before the exclusions.
calculate_included_AllFirst(policy, user, group_list) ==
    LET conds == policy.conditions.users IN
    IF All \in Get(conds, "includeUsers") THEN TRUE
    ELSE IF user.id \in Get(conds, "excludeUsers") THEN FALSE
    ELSE IF AnyIn(group_list, Get(conds, "excludeGroups")) THEN FALSE
    ELSE IF user.id \in Get(conds, "includeUsers") THEN TRUE
    ELSE AnyIn(group_list, Get(conds, "includeGroups"))

\* A plausible slip: all() where the code says any() in the last rule.
calculate_included_AllGroups(policy, user, group_list) ==
    LET conds == policy.conditions.users IN
    IF user.id \in Get(conds, "excludeUsers") THEN FALSE
    ELSE IF AnyIn(group_list, Get(conds, "excludeGroups")) THEN FALSE
    ELSE IF All \in Get(conds, "includeUsers") THEN TRUE
    ELSE IF user.id \in Get(conds, "includeUsers") THEN TRUE
    ELSE \A group \in group_list : group \in Get(conds, "includeGroups")

calculate_included(policy, user, group_list) ==
    LET conds == policy.conditions.users
        excluded_groups == Get(conds, "excludeGroups")
        included_groups == Get(conds, "includeGroups")
    IN  IF user.id \in Get(conds, "excludeUsers") THEN FALSE
        ELSE IF AnyIn(group_list, excluded_groups) THEN FALSE
        ELSE IF All \in Get(conds, "includeUsers") THEN TRUE
        ELSE IF user.id \in Get(conds, "includeUsers") THEN TRUE
        ELSE AnyIn(group_list, included_groups)

EvInit ==
    /\ ev_policy \in { [displayName |-> "P1", conditions |-> [users |-> c]] :
                        c \in UserConditions(EvUserIds, EvGroupIds) }
    /\ ev_user \in { [id |-> u] : u \in EvUserIds }
    /\ ev_group_list \in SUBSET EvGroupIds
    /\ ev_result = None
    /\ pg_fn = Idle /\ pg_source = Idle /\ pg_pc = Idle /\ pg_endpoint = Idle
    /\ pg_results = Idle /\ pg_requests = Idle /\ pg_raised = Idle
    /\ pg_returned = Idle /\ pg_error = Idle
    /\ f_args = Idle /\ f_directory = Idle /\ f_candidates = Idle /\ f_pc = Idle
    /\ f_users = Idle /\ f_group_members = Idle /\ f_presample = Idle
    /\ f_sample_size = Idle /\ f_error = Idle
    /\ ca_policies = Idle /\ users = Idle /\ memberOf = Idle /\ parallel = Idle
    /\ pc = Idle /\ next_user = Idle /\ groups = Idle /\ tasks = Idle
    /\ collected = Idle /\ requests = Idle /\ result_obj = Idle
    /\ progress = Idle /\ handed = Idle /\ csv_file = Idle /\ json_file = Idle
    /\ error = Idle

\* One call calculate_included(policy, user, group_list).
Evaluate ==
    /\ ev_result = None
    /\ ev_result' = Some(calculate_included(ev_policy, ev_user, ev_group_list))
    /\ UNCHANGED <<ev_policy, ev_user, ev_group_list, pgVars, fVars, runVars>>

EvNext == Evaluate

SpecEval == EvInit /\ [][EvNext]_vars

\* The condition sets of the evaluated policy, a missing field read as empty.
EvField(key) ==
    LET conds == ev_policy.conditions.users
    IN  IF key \in DOMAIN conds THEN conds[key] ELSE {}

\* Whether rule i of the precedence matches the evaluated inputs; the last
\* rule is the default and matches always.
EvRuleMatches(i) ==
    CASE i = 1 -> ev_user.id \in EvField("excludeUsers")
      [] i = 2 -> ev_group_list \cap EvField("excludeGroups") # {}
      [] i = 3 -> All \in EvField("includeUsers")
      [] i = 4 -> ev_user.id \in EvField("includeUsers")
      [] OTHER -> TRUE

\* The verdict of rule i.
EvRuleVerdict(i) ==
    CASE i \in {1, 2} -> FALSE
      [] i \in {3, 4} -> TRUE
      [] OTHER -> ev_group_list \cap EvField("includeGroups") # {}

EvFirstRule == CHOOSE i \in 1..5 : EvRuleMatches(i) /\ \A j \in 1..(i - 1) : ~EvRuleMatches(j)

\* C1: calculate_included returns the verdict of the first matching rule of
\* the precedence exclude-users, exclude-groups, include-all, include-users,
\* include-groups; missing fields count as empty sets, and a policy whose
\* four sets are all empty or missing yields false.
C1_FiveRulePrecedence ==
    ev_result # None =>
        /\ ev_result[1] = EvRuleVerdict(EvFirstRule)
        /\ (\A key \in CondFields : EvField(key) = {}) => ev_result[1] = FALSE

\* C1 witness: the last rule decides true on a policy with missing fields.
C1_Witness ==
    /\ ev_result = Some(TRUE)
    /\ EvFirstRule = 5
    /\ DOMAIN ev_policy.conditions.users = {"includeGroups"}

\* C2: when the user's id is in excludeUsers, or one of the user's group ids
\* is in excludeGroups, the value computed for the (user, policy) pair is
\* false whatever the include rules say.
C2_ExclusionOverrides ==
    (/\ ev_result # None
     /\ \/ ev_user.id \in EvField("excludeUsers")
        \/ \E g \in ev_group_list : g \in EvField("excludeGroups"))
    => ev_result[1] = FALSE

\* C2 witness: includeUsers = {All}, and a group of the user both excluded
\* and included; the result is false.
C2_Witness ==
    /\ ev_result = Some(FALSE)
    /\ EvField("includeUsers") = {All}
    /\ EvField("excludeUsers") = {}
    /\ \E g \in ev_group_list : g \in EvField("excludeGroups") \cap EvField("includeGroups")


(***************************************************************************)
(* call_microsoft_graph, get_all_with_next_link, get_group_members         *)
(***************************************************************************)

\* Bounds of SpecPage: pages of the source, items of a page, requests of a
\* run (a source whose links form a cycle is fetched until MaxFetches).
MaxPages == 3
MaxPageSize == 2
MaxFetches == 5

\* A URL or endpoint is a sequence of parts: GraphBase stands for the text
\* 'https://graph.microsoft.com/v1.0', a part k >= 1 for the path and query
\* of page k. The empty sequence is the empty string.
GraphBase == 0

\* The ways one request can fail: raise_for_status on a non-2xx status, and
\* the exceptions of requests.get (the timeout among them).
HTTPError == "HTTPError"
TransportErrors == {"Timeout", "ConnectionError"}

\* The items of page k of a paged source: size items with ids of their own.
PageItems(k, size) == [i \in 1..size |-> [id |-> 10 * k + i]]

\* The paged sources: pages 1..np linked 1 -> 2 -> ... -> np; the last page
\* carries no '@odata.nextLink', or one back to a page (a cycle). Page k
\* lacks the 'value' key (size -1), or holds 0..MaxPageSize items.
PagedSources ==
    UNION { { [k \in 1..np |->
                [value |-> IF sizes[k] = -1 THEN None
                           ELSE Some(PageItems(k, sizes[k])),
                 nextLink |-> IF k < np THEN Some(<<GraphBase, k + 1>>) ELSE last] ] :
              sizes \in [1..np -> -1..MaxPageSize],
              last \in {None} \cup { Some(<<GraphBase, j>>) : j \in 1..np } } :
            np \in 1..MaxPages }

\* str.replace('https://graph.microsoft.com/v1.0', ''): every occurrence goes.
StripBase(url) == SelectSeq(url, LAMBDA part : part # GraphBase)

\* data.get('@odata.nextLink', '').replace('https://graph.microsoft.com/v1.0', '')
NextEndpoint(data) ==
    StripBase(IF data.nextLink # None THEN data.nextLink[1] ELSE <<>>)

\* data.get('value', [])
Value(data) == IF data.value # None THEN data.value[1] ELSE <<>>

\* A plausible slip: the list replaced by the page instead of extended.
Extend_Replace(results, data) == Value(data)

\* results.extend(data.get('value', []))
Extend(results, data) == results \o Value(data)

\* The URL requests.get is given: f"https://graph.microsoft.com/v1.0{endpoint}"
RequestUrl(endpoint) == <<GraphBase>> \o endpoint

\* Whether the source answers the URL with a page (status 200).
Resolves(source, url) ==
    /\ Len(url) = 2
    /\ url[1] = GraphBase
    /\ url[2] \in DOMAIN source

\* The exceptions call_microsoft_graph can raise for the URL.
FetchErrors(source, url) ==
    IF Resolves(source, url) THEN TransportErrors \cup {HTTPError} ELSE {HTTPError}

\* What the function returns from its list: get_all_with_next_link the items,
\* get_group_members [member['id'] for member in members].
ReturnValue(fn, items) ==
    IF fn = "get_group_members" THEN [i \in 1..Len(items) |-> items[i].id] ELSE items

PageInit ==
    /\ pg_fn \in {"get_all_with_next_link", "get_group_members"}
    /\ pg_source \in PagedSources
    /\ pg_pc = "loop"
    /\ pg_endpoint = <<1>>
    /\ pg_results = <<>>
    /\ pg_requests = <<>>
    /\ pg_raised = None
    /\ pg_returned = None
    /\ pg_error = None
    /\ ev_policy = Idle /\ ev_user = Idle /\ ev_group_list = Idle /\ ev_result = Idle
    /\ f_args = Idle /\ f_directory = Idle /\ f_candidates = Idle /\ f_pc = Idle
    /\ f_users = Idle /\ f_group_members = Idle /\ f_presample = Idle
    /\ f_sample_size = Idle /\ f_error = Idle
    /\ ca_policies = Idle /\ users = Idle /\ memberOf = Idle /\ parallel = Idle
    /\ pc = Idle /\ next_user = Idle /\ groups = Idle /\ tasks = Idle
    /\ collected = Idle /\ requests = Idle /\ result_obj = Idle
    /\ progress = Idle /\ handed = Idle /\ csv_file = Idle /\ json_file = Idle
    /\ error = Idle

\* One turn of `while endpoint:` whose request succeeds: the page's items are
\* appended and the endpoint becomes the continuation link, or ''.
PageFetch ==
    /\ pg_pc = "loop"
    /\ pg_endpoint # <<>>
    /\ Len(pg_requests) < MaxFetches
    /\ LET url == RequestUrl(pg_endpoint) IN
        /\ Resolves(pg_source, url)
        /\ pg_requests' = Append(pg_requests, url)
        /\ pg_results' = Extend(pg_results, pg_source[url[2]])
        /\ pg_endpoint' = NextEndpoint(pg_source[url[2]])
    /\ UNCHANGED <<pg_fn, pg_source, pg_pc, pg_raised, pg_returned, pg_error,
                   evVars, fVars, runVars>>

\* A plausible slip: the exception is caught and the loop left, so that the
\* pages fetched so far are returned.
PageFetchFails_Partial ==
    /\ pg_pc = "loop"
    /\ pg_endpoint # <<>>
    /\ Len(pg_requests) < MaxFetches
    /\ \E kind \in FetchErrors(pg_source, RequestUrl(pg_endpoint)) :
        /\ pg_requests' = Append(pg_requests, RequestUrl(pg_endpoint))
        /\ pg_raised' = Some([kind |-> kind, request |-> Len(pg_requests) + 1])
    /\ pg_endpoint' = <<>>
    /\ UNCHANGED <<pg_fn, pg_source, pg_pc, pg_results, pg_returned, pg_error,
                   evVars, fVars, runVars>>

\* One turn of `while endpoint:` whose request fails: call_microsoft_graph
\* raises, neither the loop nor main catches, and the run ends with the
\* exception. The caller's variable is never assigned; pg_results keeps what
\* the dropped frame held.
PageFetchFails ==
    /\ pg_pc = "loop"
    /\ pg_endpoint # <<>>
    /\ Len(pg_requests) < MaxFetches
    /\ \E kind \in FetchErrors(pg_source, RequestUrl(pg_endpoint)) :
        /\ pg_requests' = Append(pg_requests, RequestUrl(pg_endpoint))
        /\ pg_raised' = Some([kind |-> kind, request |-> Len(pg_requests) + 1])
        /\ pg_error' = Some(kind)
    /\ pg_pc' = "terminated"
    /\ UNCHANGED <<pg_fn, pg_source, pg_endpoint, pg_results, pg_returned,
                   evVars, fVars, runVars>>

\* The loop ends on an empty endpoint and the function returns to main.
PageReturn ==
    /\ pg_pc = "loop"
    /\ pg_endpoint = <<>>
    /\ pg_returned' = Some(ReturnValue(pg_fn, pg_results))
    /\ pg_pc' = "returned"
    /\ UNCHANGED <<pg_fn, pg_source, pg_endpoint, pg_results, pg_requests,
                   pg_raised, pg_error, evVars, fVars, runVars>>

PageNext == PageFetch \/ PageFetchFails \/ PageReturn

SpecPage == PageInit /\ [][PageNext]_vars

\* The items of the pages listed, page after page.
RECURSIVE ConcatPages(_, _)
ConcatPages(source, pages) ==
    IF pages = <<>> THEN <<>>
    ELSE (IF source[Head(pages)].value = None THEN <<>> ELSE source[Head(pages)].value[1])
         \o ConcatPages(source, Tail(pages))

\* The pages the requests of the run asked for, in request order.
PagesRequested == [i \in 1..Len(pg_requests) |-> pg_requests[i][2]]

\* C5: what the pagination loop returns is the ordered concatenation of the
\* items of all pages: the first request is the starting query, each next
\* request is the continuation link of the page before, the last page
\* requested has no link (nothing is fetched after it), and every item of
\* every page is returned once, in page order then in-page order.
C5_OrderedConcatenation ==
    pg_pc = "returned" =>
        LET n == Len(pg_requests)
            items == ConcatPages(pg_source, PagesRequested)
        IN  /\ n >= 1
            /\ pg_requests[1] = <<GraphBase, 1>>
            /\ \A i \in 1..(n - 1) :
                    pg_source[PagesRequested[i]].nextLink = Some(pg_requests[i + 1])
            /\ pg_source[PagesRequested[n]].nextLink = None
            /\ \A i, j \in 1..n : i # j => PagesRequested[i] # PagesRequested[j]
            /\ Len(pg_returned[1]) = Len(items)
            /\ \A i \in 1..Len(items) :
                    pg_returned[1][i] = IF pg_fn = "get_group_members"
                                        THEN items[i].id ELSE items[i]
            /\ \A i, j \in 1..Len(items) : i # j => pg_returned[1][i] # pg_returned[1][j]

\* C5 witness: three pages followed to the end, four items or more returned.
C5_Witness ==
    /\ pg_pc = "returned"
    /\ Len(pg_requests) = 3
    /\ Len(pg_returned[1]) >= 4

\* C6: a failed page fetch, whichever page it is, ends the paginated fetch
\* and the run with the exception as raised; the caller gets no list (the
\* items of the pages before are not returned), and the failed request is the
\* last request made (no retry, no later page).
C6_AllOrNothing ==
    /\ pg_raised # None =>
            /\ pg_pc = "terminated"
            /\ pg_returned = None
            /\ pg_error = Some(pg_raised[1].kind)
            /\ pg_raised[1].request = Len(pg_requests)
    /\ pg_pc = "terminated" => pg_raised # None
    /\ pg_returned # None => pg_error = None

\* C6 witness: the second of three pages fails after the first gave items.
C6_Witness ==
    /\ pg_pc = "terminated"
    /\ Len(pg_requests) = 2
    /\ Len(pg_results) > 0
    /\ Len(pg_source) = 3
    /\ pg_returned = None


(***************************************************************************)
(* int(len(users) * args.sample): IEEE 754 double arithmetic               *)
(*                                                                         *)
(* args.sample is a Python float (argparse type=float) and len(users) *    *)
(* args.sample a double product, rounded to 53 bits before int() cuts it.  *)
(* Naturals beyond TLC's integers are little-endian sequences of limbs in  *)
(* base LimbBase, without leading zero limbs; zero is <<>>.                *)
(***************************************************************************)

LimbBits == 15
LimbBase == 32768
\* The bits of a double's significand.
DoubleBits == 53
\* The scale of the quotient that a decimal is rounded from.
ParseShift == 64
\* args.sample in the model is a decimal with two places: c stands for c/100.
SampleScale == 100

RECURSIVE MulAdd(_, _, _)
\* x * n + carry for a small n and carry.
MulAdd(x, n, carry) ==
    IF x = <<>> THEN (IF carry = 0 THEN <<>> ELSE <<carry>>)
    ELSE LET t == Head(x) * n + carry
         IN  <<t % LimbBase>> \o MulAdd(Tail(x), n, t \div LimbBase)

BigMul(x, n) == IF n = 0 THEN <<>> ELSE MulAdd(x, n, 0)

RECURSIVE BigDivMod(_, _)
\* Quotient and remainder of x by a small d.
BigDivMod(x, d) ==
    IF x = <<>> THEN [q |-> <<>>, r |-> 0]
    ELSE LET hi == BigDivMod(Tail(x), d)
             t == hi.r * LimbBase + Head(x)
         IN  [q |-> IF hi.q = <<>> /\ t \div d = 0 THEN <<>>
                    ELSE <<t \div d>> \o hi.q,
              r |-> t % d]

RECURSIVE SmallBitLen(_)
SmallBitLen(n) == IF n = 0 THEN 0 ELSE 1 + SmallBitLen(n \div 2)

BitLen(x) == IF x = <<>> THEN 0 ELSE (Len(x) - 1) * LimbBits + SmallBitLen(x[Len(x)])

RECURSIVE ShiftLeft(_, _)
ShiftLeft(x, k) ==
    IF x = <<>> \/ k = 0 THEN x
    ELSE IF k >= LimbBits THEN <<0>> \o ShiftLeft(x, k - LimbBits)
    ELSE BigMul(x, 2 ^ k)

RECURSIVE ShiftRight(_, _)
\* floor(x / 2^k)
ShiftRight(x, k) ==
    IF x = <<>> \/ k = 0 THEN x
    ELSE IF k >= LimbBits THEN ShiftRight(Tail(x), k - LimbBits)
    ELSE BigDivMod(x, 2 ^ k).q

IsOdd(x) == x # <<>> /\ Head(x) % 2 = 1

\* The value of a natural that fits TLC's integers.
ToInt(x) == IF x = <<>> THEN 0
            ELSE IF Len(x) = 1 THEN x[1]
            ELSE x[1] + LimbBase * x[2]

\* x (with `sticky` telling of a fraction below it) rounded to DoubleBits
\* bits, to nearest, ties to even: the value is m * 2^s.
RoundToDouble(x, sticky) ==
    LET s == BitLen(x) - DoubleBits IN
    IF s <= 0 THEN [m |-> x, s |-> 0]
    ELSE LET q == ShiftRight(x, s)
             half == IsOdd(ShiftRight(x, s - 1))
             below == sticky \/ ShiftLeft(ShiftRight(x, s - 1), s - 1) # x
             up == half /\ (below \/ IsOdd(q))
         IN  [m |-> IF up THEN MulAdd(q, 1, 1) ELSE q, s |-> s]

\* float("c/100") for c >= 1: the double nearest to the decimal, as m * 2^e.
ParseFloat(c) ==
    LET d == BigDivMod(ShiftLeft(<<c>>, ParseShift), SampleScale)
        r == RoundToDouble(d.q, d.r # 0)
    IN  [m |-> r.m, e |-> r.s - ParseShift]

\* int(n * x) for an int n >= 0 and a double x = m * 2^e > 0: the product is
\* rounded to a double, and int() drops its fraction.
IntOfProduct(n, x) ==
    LET r == RoundToDouble(BigMul(x.m, n), FALSE)
        e == r.s + x.e
    IN  IF e >= 0 THEN ToInt(ShiftLeft(r.m, e)) ELSE ToInt(ShiftRight(r.m, -e))

\* sample_size = int(len(users) * args.sample), args.sample = c/100 as typed;
\* int() cuts towards zero.
SampleSize(n, c) ==
    IF c = 0 \/ n = 0 THEN 0
    ELSE IF c > 0 THEN IntOfProduct(n, ParseFloat(c))
    ELSE -IntOfProduct(n, ParseFloat(-c))


(***************************************************************************)
(* main: the filtering of the fetched users (lines 153-171)                *)
(***************************************************************************)

\* Bounds of SpecFilter: fetched users (ids 1..n) and the largest --number.
MaxUsers == 2
MaxNumber == 2
\* Bound of SpecSampleSize: the users left when the sample is sized.
MaxPopulation == 50

\* The values of --sample in SpecFilter, in hundredths: in (0, 1] and outside.
SampleValues == {-50, 0, 50, 100, 150}

\* The userType values Graph reports, and the choices of --type.
UserTypes == {"Member", "Guest"}
TypeChoices == {"member", "guest"}

\* str.lower() on the userType values.
Lower(str) ==
    CASE str = "Member" -> "member"
      [] str = "Guest" -> "guest"
      [] OTHER -> str

\* `if x:` on an optional number: None and 0 are false.
Truthy(opt) == opt # None /\ opt[1] # 0

\* The users Graph returned: ids 1..n in fetch order, each with a userType.
FetchedUsers(maxUsers) ==
    UNION { { [i \in 1..n |-> [id |-> i, userType |-> types[i]]] :
              types \in [1..n -> UserTypes] } : n \in 0..maxUsers }

\* The --groups lists of the model: one group, or two (nargs='+').
GroupLists == {<<1>>, <<1, 2>>}

Range(seq) == { seq[i] : i \in 1..Len(seq) }

\* A plausible slip: the member sets intersected instead of united.
GroupMembers_Intersection(directory, group_refs) ==
    { id \in UNION { directory[g] : g \in Range(group_refs) } :
        \A g \in Range(group_refs) : id \in directory[g] }

\* group_members after the loop over args.groups: the union of the members
\* get_group_members returned for each group.
GroupMembers(directory, group_refs) == UNION { directory[g] : g \in Range(group_refs) }

\* user.get('userType', '').lower() == args.type
TypeMatches(user, type) == Lower(user.userType) = type

\* users[:number]
SliceTo(seq, number) ==
    IF number >= 0 THEN SubSeq(seq, 1, IF number < Len(seq) THEN number ELSE Len(seq))
    ELSE SubSeq(seq, 1, Len(seq) + number)

\* What random.sample(population, k) can return for 0 <= k <= len: k
\* elements at k different positions, in any order.
RandomSamples(population, k) ==
    { [i \in 1..k |-> population[pos[i]]] :
        pos \in { f \in [1..k -> 1..Len(population)] :
                    \A i, j \in 1..k : i # j => f[i] # f[j] } }

FilterInit ==
    /\ f_candidates \in FetchedUsers(MaxUsers)
    /\ f_args \in [groups : {None} \cup { Some(gl) : gl \in GroupLists },
                   type : {None} \cup { Some(t) : t \in TypeChoices },
                   sample : {None} \cup { Some(c) : c \in SampleValues },
                   number : {None} \cup { Some(k) : k \in 0..MaxNumber }]
    /\ f_directory \in IF f_args.groups = None THEN {<<>>}
                       ELSE [Range(f_args.groups[1]) -> SUBSET (1..MaxUsers)]
    /\ f_pc = "groups"
    /\ f_users = f_candidates
    /\ f_group_members = None
    /\ f_presample = None
    /\ f_sample_size = None
    /\ f_error = None
    /\ ev_policy = Idle /\ ev_user = Idle /\ ev_group_list = Idle /\ ev_result = Idle
    /\ pg_fn = Idle /\ pg_source = Idle /\ pg_pc = Idle /\ pg_endpoint = Idle
    /\ pg_results = Idle /\ pg_requests = Idle /\ pg_raised = Idle
    /\ pg_returned = Idle /\ pg_error = Idle
    /\ ca_policies = Idle /\ users = Idle /\ memberOf = Idle /\ parallel = Idle
    /\ pc = Idle /\ next_user = Idle /\ groups = Idle /\ tasks = Idle
    /\ collected = Idle /\ requests = Idle /\ result_obj = Idle
    /\ progress = Idle /\ handed = Idle /\ csv_file = Idle /\ json_file = Idle
    /\ error = Idle

\* Lines 154-159: with --groups, the members of every group are fetched and
\* the users whose id is among them are kept.
FilterGroups ==
    /\ f_pc = "groups"
    /\ IF f_args.groups # None
       THEN LET group_members == GroupMembers(f_directory, f_args.groups[1]) IN
            /\ f_group_members' = Some(group_members)
            /\ f_users' = SelectSeq(f_users, LAMBDA user : user.id \in group_members)
       ELSE UNCHANGED <<f_group_members, f_users>>
    /\ f_pc' = "type"
    /\ UNCHANGED <<f_args, f_directory, f_candidates, f_presample, f_sample_size,
                   f_error, evVars, pgVars, runVars>>

\* Line 157: a get_group_members call raises and the run ends.
FilterGroupsFails ==
    /\ f_pc = "groups"
    /\ f_args.groups # None
    /\ f_error' = Some("UpstreamError")
    /\ f_pc' = "terminated"
    /\ UNCHANGED <<f_args, f_directory, f_candidates, f_users, f_group_members,
                   f_presample, f_sample_size, evVars, pgVars, runVars>>

\* Lines 161-162.
FilterType ==
    /\ f_pc = "type"
    /\ IF f_args.type # None
       THEN f_users' = SelectSeq(f_users, LAMBDA user : TypeMatches(user, f_args.type[1]))
       ELSE UNCHANGED f_users
    /\ f_pc' = "sample"
    /\ UNCHANGED <<f_args, f_directory, f_candidates, f_group_members, f_presample,
                   f_sample_size, f_error, evVars, pgVars, runVars>>

\* Lines 164-165: sample_size, when --sample is given and not 0.0.
\* f_presample records the users list the sampling step found.
ComputeSampleSize ==
    /\ f_pc = "sample"
    /\ f_presample' = Some(f_users)
    /\ IF Truthy(f_args.sample)
       THEN /\ f_sample_size' = Some(SampleSize(Len(f_users), f_args.sample[1]))
            /\ f_pc' = "draw"
       ELSE /\ f_pc' = "number"
            /\ UNCHANGED f_sample_size
    /\ UNCHANGED <<f_args, f_directory, f_candidates, f_users, f_group_members,
                   f_error, evVars, pgVars, runVars>>

\* Line 166: users = random.sample(users, sample_size).
DrawSample ==
    /\ f_pc = "draw"
    /\ f_sample_size[1] >= 0
    /\ f_sample_size[1] <= Len(f_users)
    /\ f_users' \in RandomSamples(f_users, f_sample_size[1])
    /\ f_pc' = "number"
    /\ UNCHANGED <<f_args, f_directory, f_candidates, f_group_members, f_presample,
                   f_sample_size, f_error, evVars, pgVars, runVars>>

\* Line 166: random.sample raises ValueError for a sample larger than the
\* population or negative, and the run ends.
DrawSampleFails ==
    /\ f_pc = "draw"
    /\ f_sample_size[1] < 0 \/ f_sample_size[1] > Len(f_users)
    /\ f_error' = Some("ValueError")
    /\ f_pc' = "terminated"
    /\ UNCHANGED <<f_args, f_directory, f_candidates, f_users, f_group_members,
                   f_presample, f_sample_size, evVars, pgVars, runVars>>

\* Lines 168-171: users[:args.number], when --number is given and not 0.
LimitNumber ==
    /\ f_pc = "number"
    /\ IF Truthy(f_args.number)
       THEN f_users' = SliceTo(f_users, f_args.number[1])
       ELSE UNCHANGED f_users
    /\ f_pc' = "filtered"
    /\ UNCHANGED <<f_args, f_directory, f_candidates, f_group_members, f_presample,
                   f_sample_size, f_error, evVars, pgVars, runVars>>

FilterNext ==
    \/ FilterGroups
    \/ FilterGroupsFails
    \/ FilterType
    \/ ComputeSampleSize
    \/ DrawSample
    \/ DrawSampleFails
    \/ LimitNumber

SpecFilter == FilterInit /\ [][FilterNext]_vars


\* The users a sample of every size 0..MaxPopulation is sized for, with each
\* --sample value 0.01, 0.02, ..., 1.00: main at line 164, no other option.
SampleSizeInit ==
    /\ f_candidates \in { [i \in 1..n |-> [id |-> i, userType |-> "Member"]] :
                            n \in 0..MaxPopulation }
    /\ f_args \in [groups : {None}, type : {None},
                   sample : { Some(c) : c \in 1..SampleScale }, number : {None}]
    /\ f_directory = <<>>
    /\ f_pc = "sample"
    /\ f_users = f_candidates
    /\ f_group_members = None
    /\ f_presample = None
    /\ f_sample_size = None
    /\ f_error = None
    /\ ev_policy = Idle /\ ev_user = Idle /\ ev_group_list = Idle /\ ev_result = Idle
    /\ pg_fn = Idle /\ pg_source = Idle /\ pg_pc = Idle /\ pg_endpoint = Idle
    /\ pg_results = Idle /\ pg_requests = Idle /\ pg_raised = Idle
    /\ pg_returned = Idle /\ pg_error = Idle
    /\ ca_policies = Idle /\ users = Idle /\ memberOf = Idle /\ parallel = Idle
    /\ pc = Idle /\ next_user = Idle /\ groups = Idle /\ tasks = Idle
    /\ collected = Idle /\ requests = Idle /\ result_obj = Idle
    /\ progress = Idle /\ handed = Idle /\ csv_file = Idle /\ json_file = Idle
    /\ error = Idle

SampleSizeNext == ComputeSampleSize

SpecSampleSize == SampleSizeInit /\ [][SampleSizeNext]_vars

\* The fetched users that pass the --groups and --type options, in fetch order.
PassesFilters(user) ==
    /\ f_args.groups # None =>
           \E i \in 1..Len(f_args.groups[1]) : user.id \in f_directory[f_args.groups[1][i]]
    /\ f_args.type # None => Lower(user.userType) = Lower(f_args.type[1])

MinOf(a, b) == IF a < b THEN a ELSE b

\* C7: the filter applies group filter, type filter, sampling and cap in
\* this order, each skipped when not requested. The users the sampling step
\* finds are exactly the fetched users in a requested group (any of them)
\* and of the requested type (case-insensitively), in fetch order; the sample
\* is sized on and drawn from them; a cap K >= 1 comes last and leaves at most
\* K; nothing but fetched users is returned.
C7_FilterStages ==
    /\ f_presample # None =>
           f_presample[1] = SelectSeq(f_candidates, PassesFilters)
    /\ (f_sample_size # None /\ f_presample # None) =>
           f_sample_size[1] = SampleSize(Len(f_presample[1]), f_args.sample[1])
    /\ f_pc = "filtered" =>
           LET sampled == IF Truthy(f_args.sample) THEN f_sample_size[1]
                          ELSE Len(f_presample[1])
           IN  /\ \A i \in 1..Len(f_users) :
                      /\ f_users[i] \in Range(f_candidates)
                      /\ f_users[i] \in Range(f_presample[1])
                      /\ PassesFilters(f_users[i])
               /\ \A i, j \in 1..Len(f_users) : i # j => f_users[i] # f_users[j]
               /\ (f_args.number # None /\ f_args.number[1] >= 1) =>
                      /\ Len(f_users) <= f_args.number[1]
                      /\ Len(f_users) = MinOf(f_args.number[1], sampled)
               /\ ~Truthy(f_args.number) => Len(f_users) = sampled

\* C7 witness: two groups, a type, a sample and a cap are all requested; a
\* user of the second group only is returned while the other fetched user is
\* filtered out.
C7_Witness ==
    /\ f_pc = "filtered"
    /\ f_args.groups = Some(<<1, 2>>)
    /\ f_args.type = Some("guest")
    /\ f_args.sample = Some(50)
    /\ f_args.number = Some(1)
    /\ Len(f_candidates) = 2
    /\ Len(f_presample[1]) = 2
    /\ Len(f_users) = 1
    /\ f_users[1].id \notin f_directory[1]

\* C8, as claimed: with --sample 1.0 and a cap K the result is the first K
\* users of the group- and type-filtered list, in fetch order.
C8_SampleOneIsNoOp ==
    (/\ f_pc = "filtered"
     /\ f_args.sample = Some(SampleScale)
     /\ f_args.number # None
     /\ f_args.number[1] >= 1)
    => f_users = SubSeq(f_presample[1], 1,
                        MinOf(f_args.number[1], Len(f_presample[1])))

\* C9, as claimed: for a sample ratio in (0, 1] the sample size is
\* floor(N * ratio), N the number of users the sampling step finds.
C9_SampleSizeIsFloor ==
    (/\ f_sample_size # None
     /\ f_args.sample[1] \in 1..SampleScale)
    => f_sample_size[1] = (Len(f_presample[1]) * f_args.sample[1]) \div SampleScale


(***************************************************************************)
(* process_user, the evaluation of the filtered users and the export       *)
(* (main, lines 171-197)                                                   *)
(***************************************************************************)

\* Bounds of Spec: the filtered users (ids 1..n), the fetched policies, and
\* the largest --parallel.
MaxRunUsers == 3
MaxPolicies == 2
MaxWorkers == 2

\* Strings of the user attributes are sequences of character codes.
CommaChar == 44
SemicolonChar == 59
\* '#EXT#'
ExtMarker == <<35, 69, 88, 84, 35>>

\* The user with the given id, as Graph returns it: "U,<id>" for a name, a
\* principal name with '#EXT#' for even ids, a jobTitle "J;B" or null.
UserRecord(id) ==
    [id |-> id,
     displayName |-> <<85, CommaChar, 48 + id>>,
     userPrincipalName |-> IF id % 2 = 0
                           THEN <<117, 48 + id>> \o ExtMarker \o <<64, 120>>
                           ELSE <<117, 48 + id, 64, 120>>,
     jobTitle |-> IF id % 2 = 0 THEN Some(<<74, SemicolonChar, 66>>) ELSE None,
     accountEnabled |-> id % 2 = 1]

\* The conditions of the policies of Spec, and their display names: Graph
\* does not keep displayName unique, nor apart from 'user', 'upn', ...
PolicyConditions ==
    { [includeUsers |-> {All}, excludeGroups |-> {1}],
      [includeUsers |-> {}, includeGroups |-> {1}, excludeUsers |-> {2}] }
PolicyNames == {"P1", "P2", "user"}
PolicyPool ==
    { [displayName |-> name, conditions |-> [users |-> conds]] :
        name \in PolicyNames, conds \in PolicyConditions }

PolicyLists(maxPolicies) ==
    UNION { [1..n -> PolicyPool] : n \in 0..maxPolicies }

\* What Graph answers to /users/{id}/memberOf?$select=id, page by page:
\* user 1 is in group 2 and in group 1, which comes on a second page; user 2
\* is in group 1; the other users are in no group.
MemberOfPages(id) ==
    CASE id = 1 -> << [value |-> Some(<<[id |-> 2]>>), nextLink |-> Some(<<GraphBase, 2>>)],
                      [value |-> Some(<<[id |-> 1]>>), nextLink |-> None] >>
      [] id = 2 -> << [value |-> Some(<<[id |-> 1]>>), nextLink |-> None] >>
      [] OTHER -> << [value |-> Some(<<>>), nextLink |-> None] >>

\* The group ids the user belongs to: those of all pages.
MemberGroups(pages) ==
    UNION { { Value(pages[k])[i].id : i \in 1..Len(Value(pages[k])) } :
            k \in 1..Len(pages) }

\* str.replace(ch, '') for one character.
RemoveChar(str, ch) == SelectSeq(str, LAMBDA c : c # ch)

\* sub in str
Contains(str, sub) ==
    \E i \in 1..(Len(str) - Len(sub) + 1) : SubSeq(str, i, i + Len(sub) - 1) = sub

DisplayKeys == {"user", "upn", "job", "external", "enabled"}

\* The dictionary process_user starts from (lines 100-106).
UserResult(user) ==
    [key \in DisplayKeys |->
        CASE key = "user" ->
                 RemoveChar(RemoveChar(user.displayName, CommaChar), SemicolonChar)
          [] key = "upn" -> RemoveChar(user.userPrincipalName, CommaChar)
          [] key = "job" ->
                 RemoveChar(RemoveChar(IF user.jobTitle # None THEN user.jobTitle[1]
                                       ELSE <<>>, CommaChar), SemicolonChar)
          [] key = "external" -> Contains(user.userPrincipalName, ExtMarker)
          [] OTHER -> user.accountEnabled]

\* dict[key] = val
Put(dict, key, val) ==
    [k \in DOMAIN dict \cup {key} |-> IF k = key THEN val ELSE dict[k]]

\* [group['id'] for group in groups.get('value', [])]
GroupList(response) == [i \in 1..Len(Value(response)) |-> Value(response)[i].id]

RECURSIVE EvaluatePolicies(_, _, _, _)
\* for policy in ca_policies: user_result[policy['displayName']] = ...
EvaluatePolicies(user_result, policies, user, group_list) ==
    IF policies = <<>> THEN user_result
    ELSE EvaluatePolicies(
             Put(user_result, Head(policies).displayName,
                 calculate_included(Head(policies), user, group_list)),
             Tail(policies), user, group_list)

\* process_user after its call_microsoft_graph returned `response`.
process_user(user, policies, response) ==
    EvaluatePolicies(UserResult(user), policies, user, Range(GroupList(response)))

\* The response to the one request process_user makes: the first page.
MemberOfResponse(user) == memberOf[user.id][1]

\* A plausible slip: the loop index i used where i + 1 is due.
ProgressLine_ZeroBased(count, total_users) ==
    [percent |-> (2 * 10000 * (count - 1) + total_users) \div (2 * total_users),
     remaining |-> total_users - (count - 1)]

\* The progress line after `count` users: the percentage with two decimals
\* (in hundredths of a percent) and the users remaining.
ProgressLine(count, total_users) ==
    [percent |-> (2 * 10000 * count + total_users) \div (2 * total_users),
     remaining |-> total_users - count]

\* The exception of a failed group fetch, with the user it was for.
UpstreamError(user) == [kind |-> HTTPError, user |-> user.id]

Init ==
    /\ ca_policies \in PolicyLists(MaxPolicies)
    /\ users \in { [i \in 1..n |-> UserRecord(i)] : n \in 0..MaxRunUsers }
    /\ memberOf = [id \in 1..MaxRunUsers |-> MemberOfPages(id)]
    /\ parallel \in 1..MaxWorkers
    /\ pc = "start"
    /\ next_user = 0
    /\ groups = None
    /\ tasks = <<>>
    /\ collected = <<>>
    /\ requests = <<>>
    /\ result_obj = <<>>
    /\ progress = <<>>
    /\ handed = None
    /\ csv_file = None
    /\ json_file = None
    /\ error = None
    /\ ev_policy = Idle /\ ev_user = Idle /\ ev_group_list = Idle /\ ev_result = Idle
    /\ pg_fn = Idle /\ pg_source = Idle /\ pg_pc = Idle /\ pg_endpoint = Idle
    /\ pg_results = Idle /\ pg_requests = Idle /\ pg_raised = Idle
    /\ pg_returned = Idle /\ pg_error = Idle
    /\ f_args = Idle /\ f_directory = Idle /\ f_candidates = Idle /\ f_pc = Idle
    /\ f_users = Idle /\ f_group_members = Idle /\ f_presample = Idle
    /\ f_sample_size = Idle /\ f_error = Idle

total_users == Len(users)

\* A plausible slip: the progress step computed ahead of the loop, which
\* divides by total_users.
Schedule_DividesFirst ==
    /\ pc = "start"
    /\ IF total_users = 0
       THEN /\ pc' = "terminated"
            /\ error' = Some([kind |-> "ZeroDivisionError", user |-> 0])
            /\ UNCHANGED <<tasks, next_user>>
       ELSE /\ IF parallel > 1
               THEN /\ tasks' = [i \in 1..total_users |-> [state |-> "queued"]]
                    /\ pc' = "collect"
                    /\ UNCHANGED next_user
               ELSE /\ next_user' = 1
                    /\ pc' = "sequential"
                    /\ UNCHANGED tasks
            /\ UNCHANGED error
    /\ UNCHANGED <<ca_policies, users, memberOf, parallel, groups, collected,
                   requests, result_obj, progress, handed, csv_file, json_file,
                   evVars, pgVars, fVars>>

\* Lines 173-179 and 184: with --parallel > 1 a task per user is submitted to
\* the pool; otherwise the loop over the users starts.
Schedule ==
    /\ pc = "start"
    /\ IF parallel > 1
       THEN /\ tasks' = [i \in 1..total_users |-> [state |-> "queued"]]
            /\ pc' = "collect"
            /\ UNCHANGED next_user
       ELSE /\ next_user' = 1
            /\ pc' = "sequential"
            /\ UNCHANGED tasks
    /\ UNCHANGED <<ca_policies, users, memberOf, parallel, groups, collected,
                   requests, result_obj, progress, handed, csv_file, json_file,
                   error, evVars, pgVars, fVars>>

\* Line 185, process_user line 109: the group fetch of the next user returns.
SeqFetch ==
    /\ pc = "sequential"
    /\ next_user <= total_users
    /\ groups = None
    /\ requests' = Append(requests, users[next_user].id)
    /\ groups' = Some(MemberOfResponse(users[next_user]))
    /\ UNCHANGED <<ca_policies, users, memberOf, parallel, pc, next_user, tasks,
                   collected, result_obj, progress, handed, csv_file, json_file,
                   error, evVars, pgVars, fVars>>

\* Line 185, process_user line 109: the group fetch raises; nothing catches
\* it and the run ends.
SeqFetchFails ==
    /\ pc = "sequential"
    /\ next_user <= total_users
    /\ groups = None
    /\ requests' = Append(requests, users[next_user].id)
    /\ error' = Some(UpstreamError(users[next_user]))
    /\ pc' = "terminated"
    /\ UNCHANGED <<ca_policies, users, memberOf, parallel, next_user, groups,
                   tasks, collected, result_obj, progress, handed, csv_file,
                   json_file, evVars, pgVars, fVars>>

\* A plausible slip: the record is put in front of the list.
SeqAppend_Prepends ==
    /\ pc = "sequential"
    /\ groups # None
    /\ result_obj' = <<process_user(users[next_user], ca_policies, groups[1])>>
                         \o result_obj
    /\ progress' = Append(progress, ProgressLine(next_user, total_users))
    /\ next_user' = next_user + 1
    /\ groups' = None
    /\ UNCHANGED <<ca_policies, users, memberOf, parallel, pc, tasks, collected,
                   requests, handed, csv_file, json_file, error,
                   evVars, pgVars, fVars>>

\* Lines 185-186, process_user lines 110-116: the policies are evaluated, the
\* record appended and the progress printed.
SeqAppend ==
    /\ pc = "sequential"
    /\ groups # None
    /\ result_obj' = Append(result_obj,
                            process_user(users[next_user], ca_policies, groups[1]))
    /\ progress' = Append(progress, ProgressLine(next_user, total_users))
    /\ next_user' = next_user + 1
    /\ groups' = None
    /\ UNCHANGED <<ca_policies, users, memberOf, parallel, pc, tasks, collected,
                   requests, handed, csv_file, json_file, error,
                   evVars, pgVars, fVars>>

\* The loop of line 184 ends.
SeqDone ==
    /\ pc = "sequential"
    /\ next_user > total_users
    /\ pc' = "complete"
    /\ UNCHANGED <<ca_policies, users, memberOf, parallel, next_user, groups,
                   tasks, collected, requests, result_obj, progress, handed,
                   csv_file, json_file, error, evVars, pgVars, fVars>>

Running == { i \in 1..Len(tasks) : tasks[i].state = "running" }
Queued == { i \in 1..Len(tasks) : tasks[i].state = "queued" }
Finished == { i \in 1..Len(tasks) : tasks[i].state \in {"done", "failed"} }

\* A free worker of the pool takes the oldest queued task and process_user
\* sends its request.
TaskStart ==
    /\ pc \in {"collect", "shutdown"}
    /\ Cardinality(Running) < parallel
    /\ Queued # {}
    /\ LET i == CHOOSE q \in Queued : \A o \in Queued : q <= o IN
        /\ tasks' = [tasks EXCEPT ![i] = [state |-> "running"]]
        /\ requests' = Append(requests, users[i].id)
    /\ UNCHANGED <<ca_policies, users, memberOf, parallel, pc, next_user, groups,
                   collected, result_obj, progress, handed, csv_file, json_file,
                   error, evVars, pgVars, fVars>>

\* A plausible slip: the workers fill one shared dictionary, so that a task
\* returns the record of the user submitted last.
TaskDone_SharedRecord ==
    /\ pc \in {"collect", "shutdown"}
    /\ \E i \in Running :
        tasks' = [tasks EXCEPT ![i] =
                    [state |-> "done",
                     group_list |-> GroupList(MemberOfResponse(users[i])),
                     result |-> process_user(users[total_users], ca_policies,
                                             MemberOfResponse(users[total_users]))]]
    /\ UNCHANGED <<ca_policies, users, memberOf, parallel, pc, next_user, groups,
                   collected, requests, result_obj, progress, handed, csv_file,
                   json_file, error, evVars, pgVars, fVars>>

\* process_user returns in a worker: the future holds the record.
TaskDone ==
    /\ pc \in {"collect", "shutdown"}
    /\ \E i \in Running :
        tasks' = [tasks EXCEPT ![i] =
                    [state |-> "done",
                     group_list |-> GroupList(MemberOfResponse(users[i])),
                     result |-> process_user(users[i], ca_policies,
                                             MemberOfResponse(users[i]))]]
    /\ UNCHANGED <<ca_policies, users, memberOf, parallel, pc, next_user, groups,
                   collected, requests, result_obj, progress, handed, csv_file,
                   json_file, error, evVars, pgVars, fVars>>

\* The group fetch raises in a worker: the future holds the exception.
TaskFails ==
    /\ pc \in {"collect", "shutdown"}
    /\ \E i \in Running :
        tasks' = [tasks EXCEPT ![i] =
                    [state |-> "failed", exception |-> UpstreamError(users[i])]]
    /\ UNCHANGED <<ca_policies, users, memberOf, parallel, pc, next_user, groups,
                   collected, requests, result_obj, progress, handed, csv_file,
                   json_file, error, evVars, pgVars, fVars>>

\* A plausible slip: the list is assigned instead of appended to.
Collect_Assigns ==
    /\ pc = "collect"
    /\ \E i \in Finished \ Range(collected) :
        /\ tasks[i].state = "done"
        /\ collected' = Append(collected, i)
        /\ result_obj' = <<tasks[i].result>>
        /\ progress' = Append(progress, ProgressLine(Len(collected) + 1, total_users))
    /\ UNCHANGED <<ca_policies, users, memberOf, parallel, pc, next_user, groups,
                   tasks, requests, handed, csv_file, json_file, error,
                   evVars, pgVars, fVars>>

\* Lines 180-182: as_completed yields a finished future whose task returned;
\* the record is appended and the progress printed.
Collect ==
    /\ pc = "collect"
    /\ \E i \in Finished \ Range(collected) :
        /\ tasks[i].state = "done"
        /\ collected' = Append(collected, i)
        /\ result_obj' = Append(result_obj, tasks[i].result)
        /\ progress' = Append(progress, ProgressLine(Len(collected) + 1, total_users))
    /\ UNCHANGED <<ca_policies, users, memberOf, parallel, pc, next_user, groups,
                   tasks, requests, handed, csv_file, json_file, error,
                   evVars, pgVars, fVars>>

\* A plausible slip: the failed future is skipped and the loop goes on.
CollectFails_Skips ==
    /\ pc = "collect"
    /\ \E i \in Finished \ Range(collected) :
        /\ tasks[i].state = "failed"
        /\ collected' = Append(collected, i)
    /\ UNCHANGED <<ca_policies, users, memberOf, parallel, pc, next_user, groups,
                   tasks, requests, result_obj, progress, handed, csv_file,
                   json_file, error, evVars, pgVars, fVars>>

\* Line 181: future.result() raises the task's exception, which leaves the
\* `with` block: the executor shuts down waiting for its tasks.
CollectFails ==
    /\ pc = "collect"
    /\ \E i \in Finished \ Range(collected) :
        /\ tasks[i].state = "failed"
        /\ collected' = Append(collected, i)
        /\ error' = Some(tasks[i].exception)
    /\ pc' = "shutdown"
    /\ UNCHANGED <<ca_policies, users, memberOf, parallel, next_user, groups,
                   tasks, requests, result_obj, progress, handed, csv_file,
                   json_file, evVars, pgVars, fVars>>

\* Every future was yielded: the loop and the `with` block end.
CollectDone ==
    /\ pc = "collect"
    /\ Len(collected) = total_users
    /\ pc' = "complete"
    /\ UNCHANGED <<ca_policies, users, memberOf, parallel, next_user, groups,
                   tasks, collected, requests, result_obj, progress, handed,
                   csv_file, json_file, error, evVars, pgVars, fVars>>

\* A plausible slip: the shutdown cancels the tasks still queued and waits
\* for the running ones only (shutdown(cancel_futures=True)).
ShutdownDone_Cancels ==
    /\ pc = "shutdown"
    /\ Running = {}
    /\ pc' = "terminated"
    /\ UNCHANGED <<ca_policies, users, memberOf, parallel, next_user, groups,
                   tasks, collected, requests, result_obj, progress, handed,
                   csv_file, json_file, error, evVars, pgVars, fVars>>

\* The shutdown ends when no task is queued or running; the exception then
\* ends the run.
ShutdownDone ==
    /\ pc = "shutdown"
    /\ Finished = 1..Len(tasks)
    /\ pc' = "terminated"
    /\ UNCHANGED <<ca_policies, users, memberOf, parallel, next_user, groups,
                   tasks, collected, requests, result_obj, progress, handed,
                   csv_file, json_file, error, evVars, pgVars, fVars>>

\* Lines 188-196: result_obj is passed to export_to_csv.
HandToExport ==
    /\ pc = "complete"
    /\ handed' = Some(result_obj)
    /\ pc' = "csv"
    /\ UNCHANGED <<ca_policies, users, memberOf, parallel, next_user, groups,
                   tasks, collected, requests, result_obj, progress, csv_file,
                   json_file, error, evVars, pgVars, fVars>>

\* export_to_csv on a list with a first row: the header is its keys.
ExportCsv ==
    /\ pc = "csv"
    /\ handed[1] # <<>>
    /\ csv_file' = Some([fieldnames |-> DOMAIN handed[1][1], rows |-> handed[1]])
    /\ pc' = "json"
    /\ UNCHANGED <<ca_policies, users, memberOf, parallel, next_user, groups,
                   tasks, collected, requests, result_obj, progress, handed,
                   json_file, error, evVars, pgVars, fVars>>

\* export_to_csv on an empty list: the file is opened, and data[0] raises
\* IndexError (line 121), which ends the run.
ExportCsvFails ==
    /\ pc = "csv"
    /\ handed[1] = <<>>
    /\ csv_file' = Some([fieldnames |-> {}, rows |-> <<>>])
    /\ error' = Some([kind |-> "IndexError", user |-> 0])
    /\ pc' = "terminated"
    /\ UNCHANGED <<ca_policies, users, memberOf, parallel, next_user, groups,
                   tasks, collected, requests, result_obj, progress, handed,
                   json_file, evVars, pgVars, fVars>>

\* Line 197: export_to_json.
ExportJson ==
    /\ pc = "json"
    /\ json_file' = Some(handed[1])
    /\ pc' = "done"
    /\ UNCHANGED <<ca_policies, users, memberOf, parallel, next_user, groups,
                   tasks, collected, requests, result_obj, progress, handed,
                   csv_file, error, evVars, pgVars, fVars>>

Next ==
    \/ Schedule
    \/ SeqFetch
    \/ SeqFetchFails
    \/ SeqAppend
    \/ SeqDone
    \/ TaskStart
    \/ TaskDone
    \/ TaskFails
    \/ Collect
    \/ CollectFails
    \/ CollectDone
    \/ ShutdownDone
    \/ HandToExport
    \/ ExportCsv
    \/ ExportCsvFails
    \/ ExportJson

Spec == Init /\ [][Next]_vars

\* Bounds of SpecFair: the filtered users, the fetched policies and the
\* largest --parallel of the runs checked to their end.
MaxFairUsers == 3
MaxFairPolicies == 1
MaxFairWorkers == 2

\* The state at line 173, as in Init, for the runs of SpecFair.
FairInit ==
    /\ ca_policies \in PolicyLists(MaxFairPolicies)
    /\ users \in { [i \in 1..n |-> UserRecord(i)] : n \in 0..MaxFairUsers }
    /\ memberOf = [id \in 1..MaxFairUsers |-> MemberOfPages(id)]
    /\ parallel \in 1..MaxFairWorkers
    /\ pc = "start"
    /\ next_user = 0
    /\ groups = None
    /\ tasks = <<>>
    /\ collected = <<>>
    /\ requests = <<>>
    /\ result_obj = <<>>
    /\ progress = <<>>
    /\ handed = None
    /\ csv_file = None
    /\ json_file = None
    /\ error = None
    /\ ev_policy = Idle /\ ev_user = Idle /\ ev_group_list = Idle /\ ev_result = Idle
    /\ pg_fn = Idle /\ pg_source = Idle /\ pg_pc = Idle /\ pg_endpoint = Idle
    /\ pg_results = Idle /\ pg_requests = Idle /\ pg_raised = Idle
    /\ pg_returned = Idle /\ pg_error = Idle
    /\ f_args = Idle /\ f_directory = Idle /\ f_candidates = Idle /\ f_pc = Idle
    /\ f_users = Idle /\ f_group_members = Idle /\ f_presample = Idle
    /\ f_sample_size = Idle /\ f_error = Idle

\* The run with its scheduling: the main process and the workers of the pool
\* keep running, and a request returns or raises within the timeout given
\* to requests.get, so a step that can be taken is taken in the end.
SpecFair == FairInit /\ [][Next]_vars /\ WF_vars(Next)


\* C3, as claimed: every record holds the five display fields and one entry
\* for each fetched policy, none omitted or overwritten.
C3_OneEntryPerPolicy ==
    \A r \in 1..Len(result_obj) :
        Cardinality(DOMAIN result_obj[r]) = Cardinality(DisplayKeys) + Len(ca_policies)

\* C4, as claimed: one memberOf request per user, and the group ids handed
\* to calculate_included for a user are the groups the user belongs to, also
\* when Graph sends them on more than one page.
C4_GroupListIsMembership ==
    /\ \A i, j \in 1..Len(requests) : i # j => requests[i] # requests[j]
    /\ (pc = "sequential" /\ groups # None) =>
           Range(GroupList(groups[1])) = MemberGroups(memberOf[users[next_user].id])
    /\ \A i \in 1..Len(tasks) :
           tasks[i].state = "done" =>
               Range(tasks[i].group_list) = MemberGroups(memberOf[users[i].id])

\* C10: with no user left after filtering, the sequential loop or the pool
\* and collector end without a request, a progress line or an error, and the
\* empty result_obj is what the exporters are handed; no run ends before that.
C10_EmptyUsersPropagate ==
    total_users = 0 =>
        /\ requests = <<>>
        /\ progress = <<>>
        /\ result_obj = <<>>
        /\ pc # "shutdown"
        /\ handed = None => (error = None /\ pc \in {"start", "sequential", "collect", "complete"})
        /\ handed # None => handed = Some(<<>>)

\* C10 witness: no user, --parallel > 1, and the empty list has been handed
\* to export_to_csv without an error.
C10_Witness ==
    /\ total_users = 0
    /\ parallel > 1
    /\ pc = "csv"
    /\ handed = Some(<<>>)
    /\ error = None

\* The record process_user returns for the i-th filtered user.
ExpectedRecord(i) == process_user(users[i], ca_policies, MemberOfResponse(users[i]))

\* The result sequence of the sequential loop for the input of the run.
SequentialResult == [i \in 1..total_users |-> ExpectedRecord(i)]

\* The number of places of seq that hold val.
Count(seq, val) == Cardinality({ k \in 1..Len(seq) : seq[k] = val })

\* The records of seq are those of all the filtered users, each as often as
\* it is due, in any order.
IsFullResult(seq) ==
    LET expected == SequentialResult IN
    /\ Len(seq) = total_users
    /\ \A i \in 1..total_users :
           Count(seq, expected[i]) = Count(expected, expected[i])

\* C11: in both modes the exporters are handed result_obj only when it holds
\* the record of every filtered user, evaluated against all policies, and
\* what the files hold is what was handed over; once a group fetch has
\* failed the error is kept, the run is ending or ended, and nothing is
\* handed over or written.
C11_NoPartialResult ==
    /\ handed # None => IsFullResult(handed[1])
    /\ (csv_file # None \/ json_file # None) => handed # None
    /\ csv_file # None => csv_file[1].rows = handed[1]
    /\ json_file # None => json_file[1] = handed[1]
    /\ (error # None /\ error[1].kind = HTTPError) =>
           /\ pc \in {"shutdown", "terminated"}
           /\ handed = None
           /\ csv_file = None
           /\ json_file = None

\* C11 witness: a run with --parallel > 1 that ended on the failed group
\* fetch of one user while holding the records of others, with no export.
C11_Witness ==
    /\ parallel > 1
    /\ pc = "terminated"
    /\ error # None
    /\ error[1].kind = HTTPError
    /\ result_obj # <<>>
    /\ handed = None
    /\ csv_file = None
    /\ json_file = None

\* The evaluation is over and was not aborted.
Completed == pc \in {"complete", "csv", "json", "done"}

\* C12: when the evaluation completes, the records of result_obj are, as a
\* set and record for record, those the sequential loop yields for the same
\* policies, users and memberships, whatever --parallel is and in whatever
\* order the tasks finished and were collected; with --parallel 1 they are
\* that sequence itself.
C12_SameRecordsInBothModes ==
    Completed =>
        LET expected == SequentialResult IN
        /\ Range(result_obj) = Range(expected)
        /\ \A i \in 1..Len(expected) :
               Count(result_obj, expected[i]) = Count(expected, expected[i])
        /\ parallel = 1 => result_obj = expected

\* C12 witness: a completed run with --parallel > 1 whose rows are not in
\* the order of the sequential loop.
C12_Witness ==
    /\ parallel > 1
    /\ pc = "complete"
    /\ error = None
    /\ total_users >= 2
    /\ result_obj # SequentialResult

\* C13: with --parallel 1 the i-th record is the one of the i-th filtered
\* user, the i-th progress line is the one for i users done and there are as
\* many lines as records, and the memberOf requests go out in the order of
\* the users, the one of user i+1 only when the record of user i is in
\* result_obj.
C13_SequentialInInputOrder ==
    parallel = 1 =>
        /\ \A i \in 1..Len(result_obj) : result_obj[i] = ExpectedRecord(i)
        /\ Len(progress) = Len(result_obj)
        /\ \A i \in 1..Len(progress) : progress[i] = ProgressLine(i, total_users)
        /\ Len(requests) <= total_users
        /\ \A i \in 1..Len(requests) :
               /\ requests[i] = users[i].id
               /\ Len(result_obj) >= i - 1

\* C13 witness: a sequential run with two records appended and the group
\* fetch of the third user returned.
C13_Witness ==
    /\ parallel = 1
    /\ pc = "sequential"
    /\ Len(result_obj) = 2
    /\ Len(progress) = 2
    /\ Len(requests) = 3
    /\ groups # None

\* C14, as claimed: a run whose --sample is outside (0, 1] ends on a
\* configuration error before anything is fetched. The filtering starts when
\* the policies and the users have been fetched (lines 143-150), so such a
\* run is never seen to fetch the members of a group, to draw a sample or to
\* get through the filters.
C14_ConfigErrorBeforeFetch ==
    (f_args.sample # None /\ f_args.sample[1] \notin 1..SampleScale) =>
        /\ f_group_members = None
        /\ f_pc \notin {"number", "filtered"}
        /\ f_error # None => f_error = Some("ConfigError")

\* C15: with --parallel > 1, in every state after the submission: there is
\* one task per filtered user; a task that left the queue has sent the one
\* memberOf request of its user and no other request was sent; a task that
\* returned holds the record of its user; no future is collected twice or
\* before it finished; the k-th record of result_obj is the record of the
\* k-th collected task, so that records and collected tasks go one to one;
\* and on completion every task is collected and there are as many records
\* as filtered users.
C15_OneTaskOneRecord ==
    (parallel > 1 /\ pc # "start") =>
        /\ Len(tasks) = total_users
        /\ Len(requests) = Cardinality((1..Len(tasks)) \ Queued)
        /\ \A i \in (1..Len(tasks)) \ Queued : Count(requests, users[i].id) = 1
        /\ \A i \in 1..Len(tasks) :
               tasks[i].state = "done" => tasks[i].result = ExpectedRecord(i)
        /\ \A k \in 1..Len(collected) :
               /\ collected[k] \in Finished
               /\ Count(collected, collected[k]) = 1
        /\ Len(result_obj) =
               Cardinality({ k \in 1..Len(collected) : tasks[collected[k]].state = "done" })
        /\ \A k \in 1..Len(result_obj) :
               /\ tasks[collected[k]].state = "done"
               /\ result_obj[k] = tasks[collected[k]].result
        /\ Completed =>
               /\ Range(collected) = 1..total_users
               /\ Len(result_obj) = total_users

\* C15 witness: three tasks, collected in another order than submitted, and
\* the run complete with three records.
C15_Witness ==
    /\ parallel > 1
    /\ pc = "complete"
    /\ total_users = 3
    /\ collected # <<1, 2, 3>>
    /\ Len(collected) = 3
    /\ Len(result_obj) = 3

\* C16: in both modes there is one progress line per record appended; the
\* k-th line reports k users done out of N (the percentage of k in N, which
\* grows from line to line) and N - k remaining; and when the evaluation of
\* N >= 1 users completes there are N lines, the last reporting 100.00% and
\* 0 remaining.
C16_ProgressMonotone ==
    pc # "start" =>
        /\ Len(progress) = Len(result_obj)
        /\ Len(progress) <= total_users
        /\ \A k \in 1..Len(progress) :
               /\ progress[k].remaining = total_users - k
               /\ progress[k].percent = ProgressLine(k, total_users).percent
               /\ k > 1 => /\ progress[k].percent > progress[k - 1].percent
                           /\ progress[k].remaining = progress[k - 1].remaining - 1
        /\ (Completed /\ total_users >= 1) =>
               /\ Len(progress) = total_users
               /\ progress[Len(progress)] = [percent |-> 10000, remaining |-> 0]

\* C16 witness: a completed run of three users with --parallel > 1 whose
\* lines read 33.33%, 66.67% and 100.00%.
C16_Witness ==
    /\ parallel > 1
    /\ pc = "complete"
    /\ total_users = 3
    /\ progress = <<[percent |-> 3333, remaining |-> 2],
                    [percent |-> 6667, remaining |-> 1],
                    [percent |-> 10000, remaining |-> 0]>>

\* The order of the states of a task.
TaskRank(state) ==
    CASE state = "queued" -> 0
      [] state = "running" -> 1
      [] OTHER -> 2

\* A step of the run takes no task away and no task back.
TasksKeepRunning ==
    pc \in {"collect", "shutdown"} =>
        /\ Len(tasks') = Len(tasks)
        /\ \A i \in 1..Len(tasks) :
               /\ TaskRank(tasks'[i].state) >= TaskRank(tasks[i].state)
               /\ i \in Finished => tasks'[i] = tasks[i]

\* C17: with --parallel > 1 no task is ever cancelled or taken back (a task
\* only goes from queued to running to done or failed, and a finished one
\* stays as it is); once a failed task is collected, every task submitted,
\* queued ones included, still runs and finishes; and the run ends with the
\* error of that task only when all tasks have finished.
C17_NoCancellation ==
    /\ [][TasksKeepRunning]_vars
    /\ [](pc = "shutdown" =>
            /\ error # None
            /\ \E i \in Range(collected) :
                   /\ tasks[i].state = "failed"
                   /\ error = Some(tasks[i].exception))
    /\ []((pc = "terminated" /\ error # None /\ error[1].kind = HTTPError
             /\ parallel > 1) =>
            /\ Finished = 1..Len(tasks)
            /\ Len(requests) = Len(tasks)
            /\ \E i \in Range(collected) :
                   /\ tasks[i].state = "failed"
                   /\ error = Some(tasks[i].exception))
    /\ (pc = "shutdown") ~> (pc = "terminated" /\ Finished = 1..Len(tasks))

\* C17 witness: the first of three tasks failed and was collected; the two
\* others, one of them queued behind it, still ran to their end before the
\* run ended with the error of the first.
C17_Witness ==
    /\ parallel = 2
    /\ pc = "terminated"
    /\ total_users = 3
    /\ collected = <<1>>
    /\ error = Some(UpstreamError(users[1]))
    /\ tasks[2].state = "done"
    /\ tasks[3].state \in {"done", "failed"}
    /\ Len(requests) = 3

\* C18, as claimed: every paginated fetch returns or fails, whatever links
\* the source sends. The source answers a URL with the same page and the
\* same link every time, so a fetch that asks for a URL it has asked for
\* before goes round for ever unless a request happens to fail; a fetch that
\* ends on every source therefore asks for no URL twice, and makes no more
\* requests than the source has pages.
C18_PagedFetchEnds ==
    /\ \A i, j \in 1..Len(pg_requests) : i # j => pg_requests[i] # pg_requests[j]
    /\ Len(pg_requests) <= Len(pg_source)

====
